---- MODULE Spec2Model ----
(***************************************************************************)
(* The batch evaluation pipeline of the BatchEvaluationProcessor React     *)
(* component (src/unnamed/part_004) over the evaluation_results and        *)
(* process_logs tables reached through src/src/lib/databaseService.js.     *)
(*                                                                         *)
(* React semantics kept by the model:                                      *)
(*  - a state setter changes the component state at once (functional       *)
(*    updates are applied in order);                                       *)
(*  - an async handler started by a click keeps the values its render      *)
(*    closed over: sessionId, currentBatchIndex, evaluationResults and     *)
(*    completedUsers read inside startBatchProcessing/processCurrentBatch  *)
(*    are the values of the render in which the button was clicked, also   *)
(*    in the recursive call of processCurrentBatch (same closure);         *)
(*  - every await is a point where another handler may run.                *)
(*                                                                         *)
(* getDatabaseService(environment) returns a per-environment module that   *)
(* is not among the sources.  checkEvaluationExists, saveEvaluationResults *)
(* and logProcessEvent are called as src/src/lib/databaseService.js        *)
(* declares them and are modelled from there.  updateEvaluationResults     *)
(* and saveEvaluationError are called with (email, data) and with          *)
(* (email, message), the signatures of databaseServiceSelector.js, which   *)
(* the functions of databaseService.js do not have: these two are modelled *)
(* from the specification of the OutcomeRecord store.                      *)
(***************************************************************************)
EXTENDS Integers, Sequences, FiniteSets, TLC

\* ------------------------------------------------------------------ bounds
\* Longest user list handed to the component.
MaxUsers == 3
\* Users per batch (20 in part_004:20, 5 in BatchEvaluationProcessor.jsx:17),
\* scaled down so that a list longer than one batch is within MaxUsers.
BATCH_SIZE == 2
\* Clicks on "Start Batch Evaluation" followed in one component instance.
MaxRuns == 2
\* processCurrentBatch invocations followed per click.
MaxPasses == 2
\* A second click, made while the first is still awaiting its SESSION_START
\* log, is followed for lists of at most this many users.
MaxDoubleClickUsers == 1
\* Failing Audit Sink writes followed in one execution.
MaxAuditFailures == 1
\* A completed-users list stored by an earlier mount of the page is followed
\* for lists of at most this many users.
MaxStoredUsers == 1
\* Batch assembly: the target size T, the probe window size W and the probe
\* bound P (20 each by default), scaled down.
TargetSize == 2
ProbeWindow == 2
ProbeBound == 2
\* Highest sequence id in the Work Source, and assemblies followed.
MaxSeq == 5
MaxAssemblies == 2
\* Times the component is mounted (page loads) in one execution.
MaxMounts == 2
\* A new mount is followed after a mount with at most this many clicks.
MaxClicksBeforeRemount == 1
\* Google Drive folder: result pages it lists at most, PDF files per page
\* (pageSize=100 in the query), and the file-list fetches and evaluation
\* runs followed in one execution.
MaxPages == 3
FilesPerPage == 1
MaxFetches == 5
MaxEvaluations == 2

\* --------------------------------------------------------------- constants
\* Math.abs(parsedResults.totalScore - calculatedTotal) > 5
Tolerance == 5

null == "null"

AllEmails == <<"a@x", "b@x", "c@x", "d@x", "e@x">>

Runs == 1..MaxRuns

\* `session_${Date.now()}_${random}`: one fresh id per click.
NewSessionId(r) == <<"session", r>>

VARIABLES
  users,               \* prop: the list of users to evaluate
  apiKey,              \* import.meta.env.VITE_GEMINI_API_KEY is set
  evaluation_results,  \* table evaluation_results, in insertion order
  process_logs,        \* table process_logs, in insertion order
  localStorage,        \* localStorage['completed_users']
  sessionId,           \* React state
  currentBatchIndex,   \* React state
  evaluationResults,   \* React state
  processedUsersCount, \* React state
  isProcessing,        \* React state
  isComplete,          \* React state
  completedUsers,      \* React state
  run,                 \* the async invocations of startBatchProcessing
  nRuns,               \* clicks so far
  items,               \* history: one entry per user of a batch pass, when done
  onCompleteCalls,     \* history: onComplete() invocations per click
  auditFailures,       \* history: Audit Sink writes that have failed
  assembly,            \* the batch assembly over the Work Source
  mount,               \* history: mounts of the component, and the last unmount
  drive                \* the GoogleDrivePDFEvaluator component

vars == <<users, apiKey, evaluation_results, process_logs, localStorage,
          sessionId, currentBatchIndex, evaluationResults, processedUsersCount,
          isProcessing, isComplete, completedUsers, run, nRuns,
          items, onCompleteCalls, auditFailures, assembly, mount, drive>>

\* ----------------------------------------------------------------- helpers
RECURSIVE SumSeq(_)
SumSeq(s) == IF s = <<>> THEN 0 ELSE Head(s) + SumSeq(Tail(s))

Abs(x) == IF x < 0 THEN -x ELSE x

Min(a, b) == IF a < b THEN a ELSE b

SelectStatus(results, st) == SelectSeq(results, LAMBDA x : x.status = st)

Range(s) == {s[k] : k \in 1..Len(s)}

\* --------------------------------------------------- table evaluation_results
\* A row of evaluation_results (database/evaluation_results_schema.sql); the
\* per-stage columns are kept as one tuple, processed_at as the row's position.
Row(id, email, total, stages, status, msg) ==
  [id |-> id, email |-> email, total_score |-> total, stage_scores |-> stages,
   evaluation_status |-> status, error_message |-> msg]

\* id SERIAL PRIMARY KEY: rows are never deleted, so the next id is the count + 1.
NextId(table) == Len(table) + 1

\* .eq('email', email).order('processed_at', { ascending: false }).limit(1)
LatestRow(table, email) ==
  LET idx == {k \in 1..Len(table) : table[k].email = email}
  IN  IF idx = {} THEN <<>>
      ELSE <<table[CHOOSE k \in idx : \A j \in idx : j <= k]>>

checkEvaluationExists(table, email, fails) ==
  IF fails
  THEN \* isSuccess and needsUpdate are absent (falsy) from the error return
       [exists |-> FALSE, data |-> null, error |-> "lookup failed",
        isSuccess |-> FALSE, needsUpdate |-> FALSE]
  ELSE LET data == LatestRow(table, email)
           exists == Len(data) > 0
           record == IF exists THEN data[1] ELSE null
           isSuccess == exists /\ data[1].evaluation_status = "success"
       IN  [exists |-> exists, data |-> record, error |-> null,
            isSuccess |-> isSuccess, needsUpdate |-> exists /\ ~isSuccess]

\* evaluationData: [email, aiResults]; aiResults: [totalScore, stageScores]
saveEvaluationResults(table, evaluationData, fails) ==
  IF fails
  THEN [table |-> table, error |-> "insert failed"]
  ELSE [table |-> Append(table,
                    Row(NextId(table), evaluationData.email,
                        evaluationData.aiResults.totalScore,
                        evaluationData.aiResults.stageScores, "success", null)),
        error |-> null]

\* Position of the identity's most recent record (0: none).
LatestIndex(table, email) ==
  LET idx == {k \in 1..Len(table) : table[k].email = email}
  IN  IF idx = {} THEN 0 ELSE CHOOSE k \in idx : \A j \in idx : j <= k

\* The per-environment saveEvaluationError(email, errorMessage): an error
\* OutcomeRecord with the failure detail is persisted; a non-success record
\* of the identity is replaced in place, otherwise a record is created.
saveEvaluationError(table, email, errorMessage, fails) ==
  IF fails
  THEN [table |-> table, error |-> "insert failed"]
  ELSE LET k == LatestIndex(table, email)
       IN  IF k # 0 /\ table[k].evaluation_status # "success"
           THEN [table |-> [table EXCEPT ![k] =
                              Row(table[k].id, email, 0, <<>>, "error",
                                  errorMessage)],
                 error |-> null]
           ELSE [table |-> Append(table, Row(NextId(table), email, 0, <<>>,
                                             "error", errorMessage)),
                 error |-> null]

\* The per-environment updateEvaluationResults(email, updateData): the
\* identity's most recent record is updated in place (same record id) to
\* status success with the new scores; no row is added.
updateEvaluationResults(table, email, evaluationData, fails) ==
  IF fails
  THEN [table |-> table, error |-> "update failed"]
  ELSE LET k == LatestIndex(table, email)
       IN  IF k = 0 THEN [table |-> table, error |-> null]
           ELSE [table |-> [table EXCEPT ![k] =
                              Row(table[k].id, evaluationData.email,
                                  evaluationData.aiResults.totalScore,
                                  evaluationData.aiResults.stageScores,
                                  "success", null)],
                 error |-> null]

\* --------------------------------------------------------- table process_logs
\* The defaults logProcessEvent gives the fields of logData.
LogDefaults ==
  [sessionId |-> null, batchId |-> null, email |-> null, logLevel |-> "INFO",
   logType |-> null, processingStatus |-> null, totalScore |-> null,
   totalUsers |-> null, dbSaveAttempted |-> null, dbSaveSuccessful |-> null,
   details |-> null]

\* A trail of events together with whether a logging call has thrown; what
\* follows a call that threw is not executed.
\* The audit table after a number of logging calls, whether one of them has
\* thrown, and how many of the writes failed.
Trail(logs) == [logs |-> logs, threw |-> FALSE, failed |-> 0]

\* sessionId, logType and message are required; the row is inserted unless
\* the insert fails; the try/catch around the whole body returns the failure
\* ({ success: false, error }) and never throws.
logProcessEvent_Rethrows(logs, logData, fails) ==
  IF logData.sessionId = null \/ logData.logType = null \/ fails
  THEN [logs |-> logs, threw |-> TRUE, failed |-> IF fails THEN 1 ELSE 0]
  ELSE [logs |-> Append(logs, logData), threw |-> FALSE, failed |-> 0]

logProcessEvent(logs, logData, fails) ==
  IF logData.sessionId = null \/ logData.logType = null \/ fails
  THEN [logs |-> logs, threw |-> FALSE, failed |-> IF fails THEN 1 ELSE 0]
  ELSE [logs |-> Append(logs, logData), threw |-> FALSE, failed |-> 0]

\* if (sessionId) { await databaseService.logProcessEvent({ sessionId, ... }) }
\* issued after the calls of trail t; the return value is not looked at.
LogIfSession(t, sid, logData, fails) ==
  IF t.threw \/ sid = null THEN t
  ELSE LET o == logProcessEvent(t.logs, [logData EXCEPT !.sessionId = sid],
                               fails)
       IN  [o EXCEPT !.failed = t.failed + @]

\* The outcomes of the (at most three) audit writes issued in one step: for
\* each whether the insert fails. Without a session id in the handler's
\* closure only the first n (SESSION_START) are writes at all.
AuditFailures(sid, n) ==
  {f \in [1..3 -> BOOLEAN] :
     /\ \A k \in 1..3 : f[k] => (k <= n \/ sid # null)
     /\ auditFailures + Cardinality({k \in 1..3 : f[k]}) <= MaxAuditFailures}

\* ------------------------------------------------------------- the Evaluator
KeyMissingMessage == "Please set VITE_GEMINI_API_KEY in your .env.local file"

\* What generateContent + JSON.parse can come to: a parsed result whose
\* totalScore agrees with its stage scores, one whose totalScore does not,
\* or an exception (request failed, no JSON in the text, JSON.parse threw).
EvaluatorResponses ==
  { [threw |-> FALSE, message |-> null,
     result |-> [totalScore |-> 60, stageScores |-> <<10, 10, 5, 5, 10, 5, 10, 5>>]],
    [threw |-> FALSE, message |-> null,
     result |-> [totalScore |-> 65, stageScores |-> <<5, 5, 5, 5, 5, 5, 5, 5>>]],
    [threw |-> TRUE, message |-> "Invalid response format from Gemini AI",
     result |-> null] }

\* evaluateUser: throws before any request when the key is not set.
evaluateUser(key, response) ==
  IF ~key
  THEN [threw |-> TRUE, message |-> KeyMissingMessage, result |-> null]
  ELSE response

\* ------------------------------------------------------- the render's closure
\* users.slice(startIndex, Math.min(startIndex + BATCH_SIZE, users.length))
getCurrentBatch(c) ==
  LET startIndex == c.currentBatchIndex * BATCH_SIZE
      endIndex   == Min(startIndex + BATCH_SIZE, Len(users))
  IN  SubSeq(users, startIndex + 1, endIndex)

hasMoreBatches_Never(c) == FALSE

hasMoreBatches(c) == (c.currentBatchIndex + 1) * BATCH_SIZE < Len(users)

\* Math.ceil(users.length / BATCH_SIZE)
TotalBatches == (Len(users) + BATCH_SIZE - 1) \div BATCH_SIZE

Count(results, st) == Len(SelectStatus(results, st))

\* The counts of BATCH_COMPLETE and SESSION_COMPLETE: filters over the
\* evaluationResults the handler closed over.
ResultCounts(c) ==
  [successful |-> Count(c.evaluationResults, "success"),
   updated    |-> Count(c.evaluationResults, "updated"),
   skipped    |-> Count(c.evaluationResults, "skipped"),
   errors     |-> Count(c.evaluationResults, "error")]

BatchId(r) == <<"batch", r, run[r].passes>>

\* Where a step leaves the handler, and the audit table it leaves.
Outcome(pc, k, t, end) ==
  [pc |-> pc, i |-> k, logs |-> t.logs, failed |-> t.failed, end |-> end]

\* What follows the k-th user of the batch (k = 0: the loop is entered):
\* the pacing timer, the next user's USER_PROCESSING_START, or the end of the
\* batch: BATCH_COMPLETE, then either the chaining timer or the completion
\* (SESSION_COMPLETE and onComplete). t is the trail so far, f1 and f2 tell
\* whether the first and the second audit write made here fail. A logging
\* call that throws here is outside every try: the handler's promise is
\* rejected.
Continue(r, bid, t, k, pace, f1, f2) ==
  LET c     == run[r].closure
      batch == getCurrentBatch(c)
  IN  IF t.threw THEN Outcome("rejected", k, t, "no")
      ELSE IF k < Len(batch)
      THEN IF pace THEN Outcome("paceItem", k, t, "no")
           ELSE LET t1 == LogIfSession(t, c.sessionId,
                            [LogDefaults EXCEPT !.batchId = bid,
                               !.email = batch[k + 1],
                               !.logType = "USER_PROCESSING_START"], f1)
                IN  IF t1.threw THEN Outcome("rejected", k, t1, "no")
                    ELSE Outcome("check", k + 1, t1, "no")
      ELSE LET t1 == LogIfSession(t, c.sessionId,
                       [LogDefaults EXCEPT !.batchId = bid,
                          !.logType = "BATCH_COMPLETE",
                          !.totalUsers = Len(batch),
                          !.details = ResultCounts(c)], f1)
           IN  IF t1.threw THEN Outcome("rejected", k, t1, "no")
               ELSE IF hasMoreBatches(c) THEN Outcome("paceBatch", k, t1, "chain")
               ELSE LET t2 == LogIfSession(t1, c.sessionId,
                                [LogDefaults EXCEPT
                                   !.logType = "SESSION_COMPLETE",
                                   !.totalUsers = Len(users),
                                   !.details = ResultCounts(c)], f2)
                    \* the state is set complete before the event is logged;
                    \* onComplete follows the event
                    IN  IF t2.threw
                        THEN Outcome("rejected", k, t2, "completeNoCallback")
                        ELSE Outcome("done", k, t2, "complete")

\* The state changes that go with Continue's outcome; batchIdx, proc and comp
\* are the values the step itself has given currentBatchIndex, isProcessing
\* and isComplete before it got there.
Apply(r, a, locals, batchIdx, proc, comp) ==
  /\ process_logs' = a.logs
  /\ auditFailures' = auditFailures + a.failed
  /\ run' = [run EXCEPT ![r] = [locals EXCEPT !.pc = a.pc, !.i = a.i]]
  /\ currentBatchIndex' = IF a.end = "chain" THEN batchIdx + 1 ELSE batchIdx
  /\ isProcessing' =
       IF a.end \in {"complete", "completeNoCallback"} THEN FALSE ELSE proc
  /\ isComplete' =
       IF a.end \in {"complete", "completeNoCallback"} THEN TRUE ELSE comp
  /\ onCompleteCalls' =
       IF a.end = "complete"
       THEN [onCompleteCalls EXCEPT ![r] = @ + 1] ELSE onCompleteCalls

UserResult(email, total, status, saved, err, dbErr, full) ==
  [email |-> email, totalScore |-> total, status |-> status,
   savedToDatabase |-> saved, error |-> err, dbError |-> dbErr,
   fullResults |-> full]

\* ------------------------------------------------------------------- Init
PriorScores == <<10, 10, 5, 5, 5, 5, 5, 5>>

RECURSIVE InitialTable(_, _)
InitialTable(prior, k) ==
  IF k = 0 THEN <<>>
  ELSE LET t == InitialTable(prior, k - 1)
       IN  IF prior[k] = "success"
           THEN Append(t, Row(NextId(t), users[k], SumSeq(PriorScores),
                              PriorScores, "success", null))
           ELSE IF prior[k] = "error"
           THEN Append(t, Row(NextId(t), users[k], 0, <<>>, "error",
                              "earlier failure"))
           ELSE t

\* No batch assembly is going on.
NoAssembly ==
  [source |-> <<>>, cursor |-> 0, start |-> 0, included |-> <<>>,
   skipped |-> 0, probes |-> 0, includedBeforeProbe |-> 0, pc |-> "idle",
   outcome |-> "none", assemblies |-> 0]

\* The component has been mounted once; nothing is known of an earlier mount.
FirstMount == [n |-> 1, clean |-> FALSE, store |-> <<>>]

\* useState(null) of nextPageToken, and the pageToken = null default of
\* fetchFilesFromFolder: no page token.
NoToken == 0

\* GoogleDrivePDFEvaluator as constructed: not connected, nothing listed,
\* selected or evaluated. fetch and eval are the positions of the pending
\* fetchFilesFromFolder and of the evaluation loop; shownPage, cancelled,
\* cancelIndex and resultsAtCancel are history.
NoDrive ==
  [nPages |-> 1, isConnected |-> FALSE, isProcessing |-> FALSE,
   connecting |-> FALSE, driveFiles |-> <<>>, selectedFiles |-> <<>>,
   evaluationResults |-> <<>>, nextPageToken |-> NoToken,
   hasMoreFiles |-> TRUE, currentPage |-> 1, pageTokens |-> <<>>,
   cancelEvaluationRef |-> FALSE,
   fetch |-> [active |-> FALSE, pageToken |-> NoToken],
   eval |-> [pc |-> "idle", files |-> <<>>, i |-> 0, results |-> <<>>],
   shownPage |-> 0, fetches |-> 0, runs |-> 0, cancelled |-> FALSE,
   cancelIndex |-> 0, resultsAtCancel |-> <<>>]

NoClosure ==
  [sessionId |-> null, currentBatchIndex |-> 0, evaluationResults |-> <<>>,
   completedUsers |-> <<>>]

IdleRun ==
  [pc |-> "idle", closure |-> NoClosure, passes |-> 0, i |-> 0,
   existingCheck |-> null, evaluationResult |-> null, errorMessage |-> null,
   \* history: the identity's rows when the lookup was made, whether the
   \* Evaluator was called for the current user and whether it threw
   rowsAtCheck |-> <<>>, evaluated |-> FALSE, evalThrew |-> FALSE]

\* localStorage['completed_users'] when the component mounts: nothing, or
\* the entry an earlier mount of the page stored for the first user. The
\* mount effect copies it into completedUsers.
StoredCompletedUsers(list) ==
  {<<>>} \cup (IF Len(list) <= MaxStoredUsers
               THEN {<<[email |-> list[1], totalScore |-> 60]>>}
               ELSE {})

Init ==
  /\ users \in {SubSeq(AllEmails, 1, n) : n \in 1..MaxUsers}
  /\ apiKey \in BOOLEAN
  /\ \E prior \in [1..Len(users) -> {"none", "success", "error"}] :
       evaluation_results = InitialTable(prior, Len(users))
  /\ process_logs = <<>>
  /\ localStorage \in StoredCompletedUsers(users)
  /\ sessionId = null
  /\ currentBatchIndex = 0
  /\ evaluationResults = <<>>
  /\ processedUsersCount = 0
  /\ isProcessing = FALSE
  /\ isComplete = FALSE
  /\ completedUsers = localStorage
  /\ run = [r \in Runs |-> IdleRun]
  /\ nRuns = 0
  /\ items = <<>>
  /\ onCompleteCalls = [r \in Runs |-> 0]
  /\ auditFailures = 0
  /\ assembly = NoAssembly
  /\ mount = FirstMount
  /\ drive = NoDrive

\* ---------------------------------------------------------------- actions
\* onClick={startBatchProcessing}; the button is rendered while
\* !isProcessing && !isComplete. Runs up to its first await.
StartBatchProcessing ==
  /\ nRuns < MaxRuns
  /\ (nRuns = 0 \/ Len(users) <= MaxDoubleClickUsers)
  /\ Len(users) > 0
  /\ ~isProcessing
  /\ ~isComplete
  /\ nRuns' = nRuns + 1
  /\ sessionId' = NewSessionId(nRuns + 1)
  /\ run' = [run EXCEPT ![nRuns + 1] =
               [IdleRun EXCEPT !.pc = "sessionStart",
                  !.closure = [sessionId |-> sessionId,
                               currentBatchIndex |-> currentBatchIndex,
                               evaluationResults |-> evaluationResults,
                               completedUsers |-> completedUsers]]]
  /\ UNCHANGED <<assembly, mount, drive>>
  /\ UNCHANGED <<users, apiKey, evaluation_results, process_logs, localStorage,
                 currentBatchIndex, evaluationResults, processedUsersCount,
                 isProcessing, isComplete, completedUsers, items,
                 onCompleteCalls, auditFailures>>

\* processCurrentBatch up to its first await: setIsProcessing(true),
\* BATCH_START, then the loop.
EnterBatch(r, t, batchIdx, comp, f0, f1) ==
  LET c      == run[r].closure
      locals == [run[r] EXCEPT !.passes = @ + 1]
      bid    == <<"batch", r, locals.passes>>
      t1     == LogIfSession(t, c.sessionId,
                  [LogDefaults EXCEPT !.batchId = bid, !.logType = "BATCH_START",
                     !.totalUsers = Len(getCurrentBatch(c))], f0)
  IN  Apply(r, Continue(r, bid, t1, 0, FALSE, f1, FALSE), locals, batchIdx,
            IF t.threw THEN isProcessing ELSE TRUE, comp)

\* startBatchProcessing after the SESSION_START log has settled: the resets,
\* then processCurrentBatch().
SessionStartLogged(r) ==
  /\ run[r].pc = "sessionStart"
  /\ \E f \in AuditFailures(run[r].closure.sessionId, 1) :
       LET t == logProcessEvent(process_logs,
                  [LogDefaults EXCEPT !.sessionId = NewSessionId(r),
                     !.logType = "SESSION_START", !.totalUsers = Len(users)],
                  f[1])
       IN  /\ evaluationResults' = IF t.threw THEN evaluationResults ELSE <<>>
           /\ processedUsersCount' = IF t.threw THEN processedUsersCount ELSE 0
           /\ EnterBatch(r, t, IF t.threw THEN currentBatchIndex ELSE 0,
                         IF t.threw THEN isComplete ELSE FALSE, f[2], f[3])
  /\ UNCHANGED <<assembly, mount, drive>>
  /\ UNCHANGED <<users, apiKey, evaluation_results, localStorage, sessionId,
                 completedUsers, nRuns, items>>

RowsOf(table, email) == SelectSeq(table, LAMBDA x : x.email = email)

\* history entry of one processed user
Item(r, email, before, existingCheck, evaluated, threw, write, dbFails, after, result) ==
  [run |-> r, batchId |-> <<"batch", r, run[r].passes>>, email |-> email,
   rowsAtCheck |-> before, lookupError |-> existingCheck.error # null,
   needsUpdate |-> existingCheck.exists /\ existingCheck.needsUpdate,
   evaluated |-> evaluated, threw |-> threw, write |-> write,
   dbFails |-> dbFails, rowsAfter |-> after, result |-> result]

\* else if (existingCheck.exists && existingCheck.isSuccess): skip
skipExisting_Never(existingCheck) == FALSE

skipExisting(existingCheck) == existingCheck.exists /\ existingCheck.isSuccess

\* if (dbResult.error) dbErrorMessage = ...; else dbSaveSuccessful = true
dbSaveSuccessful_Always(dbResult) == TRUE

dbSaveSuccessful(dbResult) == dbResult.error = null

\* The end of the catch block: the for loop goes on with the next user,
\* without a pacing delay.
CatchContinue_Break(r, bid, t, f1, f2) ==
  Continue(r, bid, t, Len(getCurrentBatch(run[r].closure)), FALSE, f1, f2)

CatchContinue(r, bid, t, f1, f2) ==
  Continue(r, bid, t, run[r].i, FALSE, f1, f2)

CurrentUser(r) == getCurrentBatch(run[r].closure)[run[r].i]

CurrentBatchId(r) == <<"batch", r, run[r].passes>>

\* A logging call inside the loop's try has thrown: the catch block is next.
LogThrewMessage == "sessionId, logType, and message are required for logging"

\* checkEvaluationExists has settled: the duplicate-check branches.
Check(r) ==
  /\ run[r].pc = "check"
  /\ \E fails \in BOOLEAN, f \in AuditFailures(run[r].closure.sessionId, 0) :
       LET c     == run[r].closure
           email == CurrentUser(r)
           bid   == CurrentBatchId(r)
           rows  == RowsOf(evaluation_results, email)
           existingCheck == checkEvaluationExists(evaluation_results, email, fails)
           ev    == [LogDefaults EXCEPT !.batchId = bid, !.email = email]
           here  == Trail(process_logs)
           locals == [run[r] EXCEPT !.existingCheck = existingCheck,
                                    !.rowsAtCheck = rows,
                                    !.evaluated = FALSE, !.evalThrew = FALSE]
           \* the event of the branch taken
           t == IF existingCheck.error # null
                THEN LogIfSession(here, c.sessionId,
                       [ev EXCEPT !.logLevel = "WARN",
                          !.logType = "DUPLICATE_CHECK_ERROR",
                          !.dbSaveAttempted = FALSE, !.dbSaveSuccessful = FALSE],
                       f[1])
                ELSE IF skipExisting(existingCheck)
                THEN LogIfSession(here, c.sessionId,
                       [ev EXCEPT !.logType = "USER_SKIPPED",
                          !.processingStatus = "skipped",
                          !.totalScore = existingCheck.data.total_score,
                          !.dbSaveAttempted = FALSE, !.dbSaveSuccessful = FALSE],
                       f[1])
                ELSE IF existingCheck.exists /\ existingCheck.needsUpdate
                THEN LogIfSession(here, c.sessionId,
                       [ev EXCEPT !.logType = "USER_UPDATE_START"], f[1])
                ELSE here
       IN  IF t.threw
           THEN /\ process_logs' = t.logs
                /\ auditFailures' = auditFailures + t.failed
                /\ run' = [run EXCEPT ![r] =
                             [locals EXCEPT !.pc = "saveError",
                                            !.errorMessage = LogThrewMessage]]
                /\ UNCHANGED <<evaluationResults, processedUsersCount,
                               currentBatchIndex, isProcessing, isComplete,
                               onCompleteCalls, items>>
           ELSE IF existingCheck.error = null /\ skipExisting(existingCheck)
           THEN \* skipped: no evaluation, no write
                LET userResult == UserResult(email,
                                    existingCheck.data.total_score, "skipped",
                                    TRUE, null, null, null)
                IN  /\ evaluationResults' = Append(evaluationResults, userResult)
                    /\ processedUsersCount' = processedUsersCount + 1
                    /\ items' = Append(items,
                         Item(r, email, rows, existingCheck, FALSE, FALSE,
                              "none", FALSE, rows, userResult))
                    /\ Apply(r, Continue(r, bid, t, run[r].i, TRUE, f[2], f[3]),
                             locals, currentBatchIndex, isProcessing, isComplete)
           ELSE \* on to evaluateUser, also after a failed lookup
                /\ process_logs' = t.logs
                /\ auditFailures' = auditFailures + t.failed
                /\ run' = [run EXCEPT ![r] = [locals EXCEPT !.pc = "evaluate"]]
                /\ UNCHANGED <<evaluationResults, processedUsersCount,
                               currentBatchIndex, isProcessing, isComplete,
                               onCompleteCalls, items>>
  /\ UNCHANGED <<assembly, mount, drive>>
  /\ UNCHANGED <<users, apiKey, evaluation_results, localStorage, sessionId,
                 completedUsers, nRuns>>

\* saveUserToLocalStorage: [...completedUsers, userRecord] over the
\* completedUsers of the handler's render, stored in state and localStorage.
saveUserToLocalStorage(c, email, totalScore) ==
  Append(c.completedUsers, [email |-> email, totalScore |-> totalScore])

\* catch (error): the failure detail handed on is error.message.
CaughtMessage_Generic(out) == "Evaluation failed"

CaughtMessage(out) == out.message

\* evaluateUser has settled: a result (saved to LocalStorage at once), or an
\* exception that the catch block of the loop takes.
Evaluate(r) ==
  /\ run[r].pc = "evaluate"
  /\ \E response \in EvaluatorResponses :
       LET out   == evaluateUser(apiKey, response)
           email == CurrentUser(r)
       IN  /\ IF out.threw
              THEN /\ run' = [run EXCEPT ![r].pc = "saveError",
                                         ![r].evaluationResult = null,
                                         ![r].errorMessage = CaughtMessage(out),
                                         ![r].evaluated = TRUE,
                                         ![r].evalThrew = TRUE]
                   /\ UNCHANGED <<completedUsers, localStorage>>
              ELSE /\ run' = [run EXCEPT ![r].pc = "save",
                                         ![r].evaluationResult = out.result,
                                         ![r].errorMessage = null,
                                         ![r].evaluated = TRUE,
                                         ![r].evalThrew = FALSE]
                   /\ completedUsers' = saveUserToLocalStorage(
                        run[r].closure, email, out.result.totalScore)
                   /\ localStorage' = completedUsers'
  /\ UNCHANGED <<assembly, mount, drive>>
  /\ UNCHANGED <<users, apiKey, evaluation_results, process_logs, sessionId,
                 currentBatchIndex, evaluationResults, processedUsersCount,
                 isProcessing, isComplete, nRuns, onCompleteCalls, items,
                 auditFailures>>

\* let isUpdate = existingCheck.exists && existingCheck.needsUpdate
isUpdate_Never(existingCheck) == FALSE

isUpdate_Always(existingCheck) == TRUE

isUpdate(existingCheck) == existingCheck.exists /\ existingCheck.needsUpdate

\* logType: isUpdate ? 'USER_UPDATED' : 'USER_SUCCESS'
SuccessLogType_Misspelt(upd) == IF upd THEN "USER_UPDATE" ELSE "USER_SUCCESS"

SuccessLogType(upd) == IF upd THEN "USER_UPDATED" ELSE "USER_SUCCESS"

\* The insert or update has settled: USER_SUCCESS / USER_UPDATED, the result
\* for display, then the pacing timer unless this was the batch's last user.
Save(r) ==
  /\ run[r].pc = "save"
  /\ \E fails \in BOOLEAN, f \in AuditFailures(run[r].closure.sessionId, 0) :
       LET c      == run[r].closure
           email  == CurrentUser(r)
           bid    == CurrentBatchId(r)
           result == run[r].evaluationResult
           upd    == isUpdate(run[r].existingCheck)
           data   == [email |-> email, aiResults |-> result]
           dbResult ==
             IF upd
             THEN updateEvaluationResults(evaluation_results, email, data,
                                          fails)
             ELSE saveEvaluationResults(evaluation_results, data, fails)
           saved  == dbSaveSuccessful(dbResult)
           userResult == UserResult(email, result.totalScore,
                                    IF upd THEN "updated" ELSE "success",
                                    saved, null, dbResult.error, result)
           t == LogIfSession(Trail(process_logs), c.sessionId,
                  [LogDefaults EXCEPT !.batchId = bid, !.email = email,
                     !.logType = SuccessLogType(upd),
                     !.processingStatus = "success",
                     !.totalScore = result.totalScore,
                     !.dbSaveAttempted = TRUE, !.dbSaveSuccessful = saved],
                  f[1])
       IN  /\ evaluation_results' = dbResult.table
           /\ IF t.threw
              THEN /\ process_logs' = t.logs
                   /\ auditFailures' = auditFailures + t.failed
                   /\ run' = [run EXCEPT ![r].pc = "saveError",
                                         ![r].errorMessage = LogThrewMessage]
                   /\ UNCHANGED <<evaluationResults, processedUsersCount,
                                  currentBatchIndex, isProcessing, isComplete,
                                  onCompleteCalls, items>>
              ELSE /\ evaluationResults' = Append(evaluationResults, userResult)
                   /\ processedUsersCount' = processedUsersCount + 1
                   /\ items' = Append(items,
                        Item(r, email, run[r].rowsAtCheck, run[r].existingCheck,
                             TRUE, FALSE, IF upd THEN "update" ELSE "insert",
                             fails, RowsOf(dbResult.table, email), userResult))
                   /\ Apply(r, Continue(r, bid, t, run[r].i, TRUE, f[2], f[3]),
                            run[r], currentBatchIndex, isProcessing, isComplete)
  /\ UNCHANGED <<assembly, mount, drive>>
  /\ UNCHANGED <<users, apiKey, localStorage, sessionId, completedUsers, nRuns>>

\* The catch block: saveEvaluationError(user.email, error.message) has
\* settled: USER_ERROR, the error result, and straight on to the next user.
SaveError(r) ==
  /\ run[r].pc = "saveError"
  /\ \E fails \in BOOLEAN, f \in AuditFailures(run[r].closure.sessionId, 0) :
       LET c      == run[r].closure
           email  == CurrentUser(r)
           bid    == CurrentBatchId(r)
           dbResult == saveEvaluationError(evaluation_results, email,
                                           run[r].errorMessage, fails)
           saved  == dbSaveSuccessful(dbResult)
           userResult == UserResult(email, 0, "error", saved,
                                    run[r].errorMessage, dbResult.error, null)
           t == LogIfSession(Trail(process_logs), c.sessionId,
                  [LogDefaults EXCEPT !.batchId = bid, !.email = email,
                     !.logLevel = "ERROR", !.logType = "USER_ERROR",
                     !.processingStatus = "error", !.totalScore = 0,
                     !.dbSaveAttempted = TRUE, !.dbSaveSuccessful = saved],
                  f[1])
       IN  /\ evaluation_results' = dbResult.table
           /\ evaluationResults' =
                IF t.threw THEN evaluationResults
                ELSE Append(evaluationResults, userResult)
           /\ processedUsersCount' =
                IF t.threw THEN processedUsersCount
                ELSE processedUsersCount + 1
           /\ items' = Append(items,
                Item(r, email, run[r].rowsAtCheck, run[r].existingCheck,
                     run[r].evaluated, run[r].evalThrew, "error", fails,
                     RowsOf(dbResult.table, email), userResult))
           /\ Apply(r, CatchContinue(r, bid, t, f[2], f[3]),
                    run[r], currentBatchIndex, isProcessing, isComplete)
  /\ UNCHANGED <<assembly, mount, drive>>
  /\ UNCHANGED <<users, apiKey, localStorage, sessionId, completedUsers, nRuns>>

\* The delay between two users has passed: the next user starts.
PaceItem(r) ==
  /\ run[r].pc = "paceItem"
  /\ \E f \in AuditFailures(run[r].closure.sessionId, 0) :
       Apply(r, Continue(r, CurrentBatchId(r), Trail(process_logs), run[r].i,
                         FALSE, f[1], f[2]),
             run[r], currentBatchIndex, isProcessing, isComplete)
  /\ UNCHANGED <<assembly, mount, drive>>
  /\ UNCHANGED <<users, apiKey, evaluation_results, localStorage, sessionId,
                 evaluationResults, processedUsersCount, completedUsers, nRuns,
                 items>>

\* The delay before the next batch has passed: await processCurrentBatch(),
\* the function of the same render.
PaceBatch(r) ==
  /\ run[r].pc = "paceBatch"
  /\ run[r].passes < MaxPasses
  /\ \E f \in AuditFailures(run[r].closure.sessionId, 0) :
       EnterBatch(r, Trail(process_logs), currentBatchIndex, isComplete,
                  f[1], f[2])
  /\ UNCHANGED <<assembly, mount, drive>>
  /\ UNCHANGED <<users, apiKey, evaluation_results, localStorage, sessionId,
                 evaluationResults, processedUsersCount, completedUsers, nRuns,
                 items>>

Next ==
  \/ StartBatchProcessing
  \/ \E r \in Runs : SessionStartLogged(r)
  \/ \E r \in Runs : Check(r)
  \/ \E r \in Runs : Evaluate(r)
  \/ \E r \in Runs : Save(r)
  \/ \E r \in Runs : SaveError(r)
  \/ \E r \in Runs : PaceItem(r)
  \/ \E r \in Runs : PaceBatch(r)

Spec == Init /\ [][Next]_vars

\* ------------------------------------------------------------ batch assembly
\* fetchRange(lowerBound, upperBound): the sequence ids above lowerBound up
\* to upperBound that the Work Source holds, ascending; fewer than the range
\* implies, or none, at the tail.
fetchRange(source, lowerBound, upperBound) ==
  [k \in 1..(Min(upperBound, Len(source)) - Min(lowerBound, Len(source)))
     |-> lowerBound + k]

\* The items of a window that are included in the batch: those whose
\* identity has no success record (needs-insert or needs-update).
Included(source, window) ==
  SelectSeq(window, LAMBDA k : source[k] # "success")

\* Stop accumulating once the included items reach T, or once P consecutive
\* windows have been probed.
StopAccumulating_TargetOnly(a) == Len(a.included) >= TargetSize

StopAccumulating(a) ==
  Len(a.included) >= TargetSize \/ a.probes >= ProbeBound

\* The state a session is in while batches are assembled: nothing is being
\* processed.
AssemblyInit ==
  /\ users = <<>>
  /\ apiKey = TRUE
  /\ evaluation_results = <<>>
  /\ process_logs = <<>>
  /\ localStorage = <<>>
  /\ sessionId = null
  /\ currentBatchIndex = 0
  /\ evaluationResults = <<>>
  /\ processedUsersCount = 0
  /\ isProcessing = FALSE
  /\ isComplete = FALSE
  /\ completedUsers = <<>>
  /\ run = [r \in Runs |-> IdleRun]
  /\ nRuns = 0
  /\ items = <<>>
  /\ onCompleteCalls = [r \in Runs |-> 0]
  /\ auditFailures = 0
  /\ mount = FirstMount
  /\ drive = NoDrive
  /\ \E n \in 0..MaxSeq :
       \E source \in [1..n -> {"absent", "error", "success"}] :
         assembly = [NoAssembly EXCEPT !.source = source]

pipeline ==
  <<users, apiKey, evaluation_results, process_logs, localStorage, sessionId,
    currentBatchIndex, evaluationResults, processedUsersCount, isProcessing,
    isComplete, completedUsers, run, nRuns, items, onCompleteCalls,
    auditFailures, mount, drive>>

\* BatchAssembling is entered: from the cursor the last assembly has left.
BeginAssembly ==
  /\ assembly.pc = "idle"
  /\ assembly.assemblies < MaxAssemblies
  /\ assembly' = [assembly EXCEPT !.pc = "probing", !.start = assembly.cursor,
                                  !.included = <<>>, !.skipped = 0,
                                  !.probes = 0, !.includedBeforeProbe = 0,
                                  !.outcome = "none"]
  /\ UNCHANGED pipeline

\* One window of size W is fetched and classified; the cursor moves on by
\* the span scanned.
Probe ==
  /\ assembly.pc = "probing"
  /\ ~StopAccumulating(assembly)
  /\ LET window == fetchRange(assembly.source, assembly.cursor,
                              assembly.cursor + ProbeWindow)
         inc    == Included(assembly.source, window)
     IN  assembly' = [assembly EXCEPT
                        !.includedBeforeProbe = Len(assembly.included),
                        !.included = assembly.included \o inc,
                        !.skipped = @ + Len(window) - Len(inc),
                        !.probes = @ + 1,
                        !.cursor = @ + ProbeWindow]
  /\ UNCHANGED pipeline

\* Accumulation has stopped: the assembly ends, with a full batch or at the
\* probe bound; neither is an error.
EndAssembly ==
  /\ assembly.pc = "probing"
  /\ StopAccumulating(assembly)
  /\ assembly' = [assembly EXCEPT
                    !.pc = "idle", !.assemblies = @ + 1,
                    !.outcome = IF Len(assembly.included) >= TargetSize
                                THEN "target" ELSE "probeBound"]
  /\ UNCHANGED pipeline

AssemblyNext == BeginAssembly \/ Probe \/ EndAssembly

AssemblySpec == AssemblyInit /\ [][AssemblyNext]_vars

\* --------------------------------------------------- GoogleDrivePDFEvaluator
\* Drive's files.list over the folder: a page token stands for the page it
\* leads to, no token for the first page; the answer carries the page's files
\* and the token of the page after it, if there is one.
PageOf(pageToken) == IF pageToken = NoToken THEN 1 ELSE pageToken

FilesOfPage(p) == [k \in 1..FilesPerPage |-> <<p, k>>]

listFiles(nPages, pageToken) ==
  LET p == PageOf(pageToken)
  IN  [files |-> FilesOfPage(p),
       nextPageToken |-> IF p < nPages THEN p + 1 ELSE NoToken]

\* Everything but the GoogleDrivePDFEvaluator.
notDrive ==
  <<users, apiKey, evaluation_results, process_logs, localStorage, sessionId,
    currentBatchIndex, evaluationResults, processedUsersCount, isProcessing,
    isComplete, completedUsers, run, nRuns, items, onCompleteCalls,
    auditFailures, assembly, mount>>

DriveInit ==
  /\ users = <<>>
  /\ apiKey = TRUE
  /\ evaluation_results = <<>>
  /\ process_logs = <<>>
  /\ localStorage = <<>>
  /\ sessionId = null
  /\ currentBatchIndex = 0
  /\ evaluationResults = <<>>
  /\ processedUsersCount = 0
  /\ isProcessing = FALSE
  /\ isComplete = FALSE
  /\ completedUsers = <<>>
  /\ run = [r \in Runs |-> IdleRun]
  /\ nRuns = 0
  /\ items = <<>>
  /\ onCompleteCalls = [r \in Runs |-> 0]
  /\ auditFailures = 0
  /\ assembly = NoAssembly
  /\ mount = FirstMount
  /\ \E n \in 1..MaxPages : drive = [NoDrive EXCEPT !.nPages = n]

\* onClick of "Connect Google Drive" (disabled while isProcessing), up to the
\* first await.
connectToGoogleDrive ==
  /\ ~drive.isConnected
  /\ ~drive.isProcessing
  /\ drive.fetches < MaxFetches
  /\ drive' = [drive EXCEPT !.isProcessing = TRUE, !.connecting = TRUE]
  /\ UNCHANGED notDrive

\* The token client's callback, or the catch block when initialising fails:
\* with a token the pagination state is reset and the first page is fetched.
TokenCallback ==
  /\ drive.connecting
  /\ \E ok \in BOOLEAN :
       drive' = IF ok
                THEN [drive EXCEPT !.connecting = FALSE, !.isConnected = TRUE,
                        !.pageTokens = <<>>, !.currentPage = 1,
                        !.nextPageToken = NoToken,
                        !.fetch = [active |-> TRUE, pageToken |-> NoToken],
                        !.fetches = @ + 1]
                ELSE [drive EXCEPT !.connecting = FALSE,
                        !.isProcessing = FALSE]
  /\ UNCHANGED notDrive

\* fetchFilesFromFolder after its await: the page replaces the list and the
\* pagination state follows the answer, or the catch block reports the
\* failure; both end the processing state.
FetchSettled ==
  /\ drive.fetch.active
  /\ \E ok \in BOOLEAN :
       LET data == listFiles(drive.nPages, drive.fetch.pageToken)
       IN  drive' = IF ok
                    THEN [drive EXCEPT !.fetch.active = FALSE,
                            !.driveFiles = data.files,
                            !.nextPageToken = data.nextPageToken,
                            !.hasMoreFiles = data.nextPageToken # NoToken,
                            !.isProcessing = FALSE,
                            !.shownPage = PageOf(drive.fetch.pageToken)]
                    ELSE [drive EXCEPT !.fetch.active = FALSE,
                            !.isProcessing = FALSE]
  /\ UNCHANGED notDrive

\* The file list with its buttons is rendered while
\* !isProcessing && driveFiles.length > 0, inside the isConnected section.
ControlsRendered ==
  drive.isConnected /\ ~drive.isProcessing /\ drive.driveFiles # <<>>

loadNextPage ==
  /\ ControlsRendered
  /\ drive.hasMoreFiles
  /\ drive.nextPageToken # NoToken
  /\ drive.fetches < MaxFetches
  /\ drive' = [drive EXCEPT !.isProcessing = TRUE,
                 !.pageTokens = Append(@, drive.nextPageToken),
                 !.currentPage = @ + 1,
                 !.fetch = [active |-> TRUE, pageToken |-> drive.nextPageToken],
                 !.fetches = @ + 1]
  /\ UNCHANGED notDrive

loadPreviousPage ==
  /\ ControlsRendered
  /\ drive.currentPage > 1
  /\ drive.fetches < MaxFetches
  /\ LET newPageTokens ==
           SubSeq(drive.pageTokens, 1, Len(drive.pageTokens) - 1)
         previousPageToken ==
           IF Len(newPageTokens) > 0
           THEN newPageTokens[Len(newPageTokens)] ELSE NoToken
     IN  drive' = [drive EXCEPT !.isProcessing = TRUE,
                     !.pageTokens = newPageTokens,
                     !.currentPage = @ - 1,
                     !.fetch = [active |-> TRUE,
                                pageToken |-> previousPageToken],
                     !.fetches = @ + 1]
  /\ UNCHANGED notDrive

\* The Disconnect button is rendered whenever isConnected.
disconnectFromGoogleDrive ==
  /\ drive.isConnected
  /\ drive' = [drive EXCEPT !.isConnected = FALSE, !.driveFiles = <<>>,
                 !.selectedFiles = <<>>, !.nextPageToken = NoToken,
                 !.hasMoreFiles = TRUE, !.currentPage = 1,
                 !.pageTokens = <<>>]
  /\ UNCHANGED notDrive

IsSelected(file) ==
  \E k \in 1..Len(drive.selectedFiles) : drive.selectedFiles[k] = file

toggleFileSelection ==
  /\ ControlsRendered
  /\ \E n \in 1..Len(drive.driveFiles) :
       LET file == drive.driveFiles[n]
       IN  drive' = [drive EXCEPT !.selectedFiles =
                       IF IsSelected(file)
                       THEN SelectSeq(@, LAMBDA f : f # file)
                       ELSE Append(@, file)]
  /\ UNCHANGED notDrive

\* "Select All" / "Deselect All": one button, by the two lengths.
selectAllFiles ==
  /\ ControlsRendered
  /\ Len(drive.selectedFiles) # Len(drive.driveFiles)
  /\ drive' = [drive EXCEPT !.selectedFiles = drive.driveFiles]
  /\ UNCHANGED notDrive

deselectAllFiles ==
  /\ ControlsRendered
  /\ Len(drive.selectedFiles) = Len(drive.driveFiles)
  /\ drive' = [drive EXCEPT !.selectedFiles = <<>>]
  /\ UNCHANGED notDrive

\* The evaluation loop is entered: the processing state is set, the earlier
\* results and the cancel flag are cleared, and the first file is in flight.
StartEvaluation(files) ==
  [drive EXCEPT !.isProcessing = TRUE, !.evaluationResults = <<>>,
     !.cancelEvaluationRef = FALSE,
     !.eval = [pc |-> "fetchingPdf", files |-> files, i |-> 1,
               results |-> <<>>],
     !.runs = @ + 1, !.cancelled = FALSE, !.cancelIndex = 0,
     !.resultsAtCancel = <<>>]

\* "Evaluate Selected PDFs": rendered while selectedFiles.length > 0 and
\* !isProcessing.
evaluatePDFs ==
  /\ drive.isConnected
  /\ drive.selectedFiles # <<>>
  /\ ~drive.isProcessing
  /\ drive.runs < MaxEvaluations
  /\ drive' = StartEvaluation(drive.selectedFiles)
  /\ UNCHANGED notDrive

\* "Evaluate All": the files of the page shown are selected and evaluated.
evaluateAllPDFs ==
  /\ ControlsRendered
  /\ drive.runs < MaxEvaluations
  /\ drive' = [StartEvaluation(drive.driveFiles) EXCEPT
                 !.selectedFiles = drive.driveFiles]
  /\ UNCHANGED notDrive

\* if (cancelEvaluationRef.current) break
Cancelled_Never(ref) == FALSE

Cancelled(ref) == ref

\* A file's result has been pushed: the results are shown, and the loop goes
\* on to the next file unless there is none or the evaluation was cancelled;
\* leaving the loop ends the processing state.
AfterFile(results) ==
  LET i  == drive.eval.i + 1
      go == i <= Len(drive.eval.files) /\ ~Cancelled(drive.cancelEvaluationRef)
  IN  [drive EXCEPT !.evaluationResults = results,
         !.eval = IF go
                  THEN [pc |-> "fetchingPdf", files |-> drive.eval.files,
                        i |-> i, results |-> results]
                  ELSE [pc |-> "idle", files |-> <<>>, i |-> 0,
                        results |-> <<>>],
         !.isProcessing = IF go THEN drive.isProcessing ELSE FALSE]

\* fetchPDFBlobFromDrive has settled; a failure is the file's error result.
PdfFetched ==
  /\ drive.eval.pc = "fetchingPdf"
  /\ \E ok \in BOOLEAN :
       drive' = IF ok
                THEN [drive EXCEPT !.eval.pc = "evaluating"]
                ELSE AfterFile(Append(drive.eval.results,
                       [fileName |-> drive.eval.files[drive.eval.i],
                        error |-> TRUE]))
  /\ UNCHANGED notDrive

\* evaluateContent has settled: the evaluation, or the file's error result.
ContentEvaluated ==
  /\ drive.eval.pc = "evaluating"
  /\ \E ok \in BOOLEAN :
       drive' = AfterFile(Append(drive.eval.results,
                  [fileName |-> drive.eval.files[drive.eval.i],
                   error |-> ~ok]))
  /\ UNCHANGED notDrive

\* "Stop Evaluation": rendered while selectedFiles.length > 0 and
\* isProcessing. The history fields keep the file in flight and the results
\* shown at the first cancellation of a running evaluation.
cancelEvaluation ==
  /\ drive.isConnected
  /\ drive.selectedFiles # <<>>
  /\ drive.isProcessing
  /\ drive' = IF drive.eval.pc # "idle" /\ ~drive.cancelled
              THEN [drive EXCEPT !.cancelEvaluationRef = TRUE,
                      !.cancelled = TRUE, !.cancelIndex = drive.eval.i,
                      !.resultsAtCancel = drive.eval.results]
              ELSE [drive EXCEPT !.cancelEvaluationRef = TRUE]
  /\ UNCHANGED notDrive

DriveNext ==
  \/ connectToGoogleDrive
  \/ TokenCallback
  \/ FetchSettled
  \/ loadNextPage
  \/ loadPreviousPage
  \/ disconnectFromGoogleDrive
  \/ toggleFileSelection
  \/ selectAllFiles
  \/ deselectAllFiles
  \/ evaluatePDFs
  \/ evaluateAllPDFs
  \/ PdfFetched
  \/ ContentEvaluated
  \/ cancelEvaluation

DriveSpec == DriveInit /\ [][DriveNext]_vars

\* ------------------------------------------------------------------ remount
\* No evaluation and no persistence write of the sessions of this mount has
\* failed.
CleanSession ==
  \A k \in 1..Len(items) :
    items[k].result.status # "error" /\ items[k].result.savedToDatabase

\* The page is loaded again after the sessions of the mount have completed:
\* the component is constructed anew, every useState is back at its initial
\* value and the mount effect reads localStorage; the tables and
\* localStorage stay as they are.
Remount ==
  /\ mount.n < MaxMounts
  /\ nRuns > 0
  /\ nRuns <= MaxClicksBeforeRemount
  /\ \A r \in 1..nRuns : run[r].pc = "done"
  /\ mount' = [n |-> mount.n + 1, clean |-> CleanSession,
               store |-> evaluation_results]
  /\ sessionId' = null
  /\ currentBatchIndex' = 0
  /\ evaluationResults' = <<>>
  /\ processedUsersCount' = 0
  /\ isProcessing' = FALSE
  /\ isComplete' = FALSE
  /\ completedUsers' = localStorage
  /\ run' = [r \in Runs |-> IdleRun]
  /\ nRuns' = 0
  /\ items' = <<>>
  /\ onCompleteCalls' = [r \in Runs |-> 0]
  /\ UNCHANGED <<users, apiKey, evaluation_results, process_logs, localStorage,
                 auditFailures, assembly, drive>>

RerunNext ==
  \/ Next
  \/ Remount

RerunSpec == Init /\ [][RerunNext]_vars

TypeOK ==
  /\ nRuns \in 0..MaxRuns
  /\ processedUsersCount \in Nat
  /\ isProcessing \in BOOLEAN
  /\ isComplete \in BOOLEAN

\* ------------------------------------------------------------- properties
HasSuccess(rows) ==
  \E k \in 1..Len(rows) : rows[k].evaluation_status = "success"

\* The identity's most recent record has status st.
LatestIs(rows, st) ==
  Len(rows) > 0 /\ rows[Len(rows)].evaluation_status = st

\* The Evaluator call of run r for its current user has been made.
EvaluatorInvoked(r) == run[r].pc \in {"evaluate", "save", "saveError"}

ItemsOf(r, bid) ==
  SelectSeq(items, LAMBDA x : x.run = r /\ x.batchId = bid)

SessionCompleteEvents(sid) ==
  SelectSeq(process_logs,
            LAMBDA x : x.logType = "SESSION_COMPLETE" /\ x.sessionId = sid)

\* C1 (as stated): an identity that has a success record in the store when it
\* is looked up gets a 'skipped' result and the Evaluator is never invoked
\* for it.
C1_SuccessAlwaysSkipped ==
  /\ \A k \in 1..Len(items) :
       HasSuccess(items[k].rowsAtCheck)
         => items[k].result.status = "skipped" /\ ~items[k].evaluated
  /\ \A r \in Runs :
       EvaluatorInvoked(r) => ~HasSuccess(run[r].rowsAtCheck)

\* C1 (amended): when the lookup for an item succeeds and the identity's most
\* recent record is a success record, the item gets a 'skipped' result and the
\* Evaluator is not invoked for it.
C1_SuccessSkippedWhenLookupSucceeds ==
  /\ \A k \in 1..Len(items) :
       (~items[k].lookupError /\ LatestIs(items[k].rowsAtCheck, "success"))
         => items[k].result.status = "skipped" /\ ~items[k].evaluated
  /\ \A r \in Runs :
       (EvaluatorInvoked(r) /\ LatestIs(run[r].rowsAtCheck, "success"))
         => run[r].existingCheck.error # null

C1_Witness ==
  \E k \in 1..Len(items) :
    /\ ~items[k].lookupError
    /\ LatestIs(items[k].rowsAtCheck, "success")
    /\ items[k].result.status = "skipped"

\* The retried record is the same record, now a success with the new score,
\* and the identity has as many rows as before.
SameRecordUpdated(it) ==
  /\ Len(it.rowsAfter) = Len(it.rowsAtCheck)
  /\ it.rowsAfter[Len(it.rowsAfter)].id = it.rowsAtCheck[Len(it.rowsAtCheck)].id
  /\ it.rowsAfter[Len(it.rowsAfter)].evaluation_status = "success"
  /\ it.rowsAfter[Len(it.rowsAfter)].total_score = it.result.totalScore

C3_AtMostOneSuccessPerIdentity ==
  \A e \in Range(users) :
    Cardinality({k \in 1..Len(evaluation_results) :
                   /\ evaluation_results[k].email = e
                   /\ evaluation_results[k].evaluation_status = "success"}) <= 1

\* C4: a session runs through its Math.ceil(users.length / BATCH_SIZE)
\* batches and then ends having emitted SESSION_COMPLETE and invoked the
\* completion callback, also when the list is longer than one batch: no
\* session chains on after its last batch, and none ends without the event.
C4_SessionCompletes ==
  \A r \in Runs :
    /\ run[r].pc = "paceBatch" => run[r].passes < TotalBatches
    /\ run[r].pc = "done"
         => /\ onCompleteCalls[r] = 1
            /\ Len(SessionCompleteEvents(NewSessionId(r))) = 1

C6_SessionCompleteCountsAddUp ==
  \A k \in 1..Len(process_logs) :
    process_logs[k].logType = "SESSION_COMPLETE"
      => process_logs[k].details.successful + process_logs[k].details.updated
         + process_logs[k].details.skipped + process_logs[k].details.errors
         = process_logs[k].totalUsers

\* What an item's own lookup and its own Evaluator call make of it.
OwnOutcome(it) ==
  IF ~it.evaluated THEN "skipped"
  ELSE IF it.threw THEN "error"
  ELSE IF it.needsUpdate THEN "updated" ELSE "success"

\* Run r has left the pass with batch id bid behind.
PassOver(r, bid) ==
  bid[3] < run[r].passes \/ run[r].pc \in {"paceBatch", "done"}

\* C7: when the Evaluator fails for an item, the item shows status error with
\* the captured message, every other item of the batch has the outcome its
\* own lookup and evaluation give it, and once the batch is over every user
\* of the batch has a result.
C7_EvaluatorFailureIsPerItem ==
  \A k \in 1..Len(items) :
    items[k].threw =>
      LET r     == items[k].run
          bid   == items[k].batchId
          batch == getCurrentBatch(run[r].closure)
          done  == ItemsOf(r, bid)
      IN  /\ items[k].result.status = "error"
          /\ items[k].result.totalScore = 0
          /\ items[k].result.error =
               (IF apiKey THEN "Invalid response format from Gemini AI"
                ELSE KeyMissingMessage)
          /\ Len(done) <= Len(batch)
          /\ \A j \in 1..Len(done) :
               /\ done[j].email = batch[j]
               /\ done[j].result.status = OwnOutcome(done[j])
          /\ PassOver(r, bid) => Len(done) = Len(batch)

C7_Witness ==
  \E k \in 1..Len(items) :
    \E j \in 1..Len(items) :
      /\ k < j
      /\ items[k].run = items[j].run
      /\ items[k].batchId = items[j].batchId
      /\ items[k].threw
      /\ items[j].result.status = "success"
      /\ PassOver(items[k].run, items[k].batchId)

C9_PersistedTotalReconciled ==
  \A k \in 1..Len(items) :
    (items[k].evaluated /\ ~items[k].threw /\ ~items[k].dbFails
       /\ Abs(items[k].result.fullResults.totalScore
              - SumSeq(items[k].result.fullResults.stageScores)) > Tolerance)
      => items[k].rowsAfter[Len(items[k].rowsAfter)].total_score
           = SumSeq(items[k].result.fullResults.stageScores)

\* C10: when the API key is missing the session aborts before any user is
\* processed: no user gets a result, no per-user event is logged and no
\* record is written.
C10_MissingKeyAbortsSession ==
  ~apiKey =>
    /\ items = <<>>
    /\ processedUsersCount = 0
    /\ \A r \in Runs : run[r].pc \in {"idle", "sessionStart", "done"}
    /\ \A k \in 1..Len(process_logs) : process_logs[k].email = null
    /\ \A k \in 1..Len(evaluation_results) :
         evaluation_results[k].error_message # KeyMissingMessage

\* The handler positions at which an awaited external call is outstanding:
\* the SESSION_START write, the Dedup Index lookup, the Evaluator call, the
\* persistence write of an outcome and that of an error (the writes of the
\* audit events that follow settle within the same steps).
AwaitingExternalCall(r) ==
  run[r].pc \in {"sessionStart", "check", "evaluate", "save", "saveError"}

\* C11: at every moment at most one external call is outstanding; no two
\* invocations of the handler are awaiting an external call at the same time.
C11_AtMostOneExternalCallOutstanding ==
  Cardinality({r \in Runs : AwaitingExternalCall(r)}) <= 1

\* The users handled by the invocation r, in the order they were handled.
SessionItems(r) == SelectSeq(items, LAMBDA x : x.run = r)

\* Position of an identity in the user list.
Position(email) == CHOOSE k \in 1..Len(users) : users[k] = email

\* C12: the sequence of items a session processes is strictly ascending in
\* list position (each batch in order, each chained batch over the next
\* window).
C12_SessionItemsStrictlyAscending ==
  \A r \in Runs :
    \A m, n \in 1..Len(SessionItems(r)) :
      m < n => Position(SessionItems(r)[m].email)
                 < Position(SessionItems(r)[n].email)

\* The audit trail holds an event of the given type for the item.
EventLogged(it, type) ==
  \E k \in 1..Len(process_logs) :
    /\ process_logs[k].logType = type
    /\ process_logs[k].email = it.email
    /\ process_logs[k].batchId = it.batchId

\* C13: an item whose identity's most recent record is a success record when
\* the lookup before the Evaluator call is made (whoever wrote it) is
\* skipped: the Evaluator is not called for it, and, no audit write having
\* failed, USER_SKIPPED is in the trail for it.
C13_SuccessBeforeEvaluatorIsSkippedWithEvent ==
  \A k \in 1..Len(items) :
    LatestIs(items[k].rowsAtCheck, "success") =>
      /\ items[k].result.status = "skipped"
      /\ ~items[k].evaluated
      /\ auditFailures = 0 => EventLogged(items[k], "USER_SKIPPED")

\* The audit trail holds a WARN event of the given type for the item.
WarnLogged(it, type) ==
  \E k \in 1..Len(process_logs) :
    /\ process_logs[k].logType = type
    /\ process_logs[k].logLevel = "WARN"
    /\ process_logs[k].email = it.email
    /\ process_logs[k].batchId = it.batchId

\* C14: an item whose lookup failed has, no audit write having failed, a WARN
\* event in the trail, the Evaluator was called for it, and an evaluation
\* that succeeded was persisted by an insert with the result 'success', as
\* for an identity without a record.
C14_LookupFailureWarnsAndProceedsAsNew ==
  \A k \in 1..Len(items) :
    items[k].lookupError =>
      /\ auditFailures = 0 => WarnLogged(items[k], "DUPLICATE_CHECK_ERROR")
      /\ items[k].evaluated
      /\ ~items[k].threw =>
           items[k].write = "insert" /\ items[k].result.status = "success"

\* The event that ends an item with the given result status.
TerminalEvent(status) ==
  IF status = "success" THEN "USER_SUCCESS"
  ELSE IF status = "updated" THEN "USER_UPDATED"
  ELSE IF status = "skipped" THEN "USER_SKIPPED"
  ELSE "USER_ERROR"

\* C15: whatever Audit Sink writes fail, no invocation of the handler is
\* aborted, every pass that is over has handled every user of its batch,
\* every item has the outcome its own lookup, evaluation and persistence
\* write give it, and no user is handled twice within a pass.
C15_AuditFailureNeverPropagates ==
  /\ \A r \in Runs :
       /\ run[r].pc # "rejected"
       /\ \A p \in 1..run[r].passes :
            PassOver(r, <<"batch", r, p>>) =>
              Len(ItemsOf(r, <<"batch", r, p>>))
                = Len(getCurrentBatch(run[r].closure))
  /\ \A k \in 1..Len(items) :
       /\ items[k].result.status = OwnOutcome(items[k])
       /\ items[k].result.savedToDatabase = ~items[k].dbFails
       /\ \A j \in 1..Len(items) :
            (j # k /\ items[j].run = items[k].run
               /\ items[j].batchId = items[k].batchId)
              => items[j].email # items[k].email

\* A session whose terminal event for an item was not written has completed.
C15_Witness ==
  \E k \in 1..Len(items) :
    /\ run[items[k].run].closure.sessionId # null
    /\ auditFailures > 0
    /\ ~EventLogged(items[k], TerminalEvent(items[k].result.status))
    /\ run[items[k].run].pc = "done"
    /\ onCompleteCalls[items[k].run] = 1

\* C16: a user that is not the first of its batch starts only when the pacing
\* delay after the user before it has passed, and the pacing delay is never
\* begun after the last user of a batch.
C16_PacingBetweenConsecutiveItems ==
  [][\A r \in Runs :
       /\ (run'[r].i > 1 /\ run'[r].i # run[r].i) => run[r].pc = "paceItem"
       /\ run'[r].pc = "paceItem"
            => run'[r].i < Len(getCurrentBatch(run'[r].closure))]_vars

\* The items of the pass with batch id bid that ended with the given status.
BatchOutcomes(bid, status) ==
  SelectSeq(items, LAMBDA x : x.batchId = bid /\ x.result.status = status)

\* C17: when BATCH_COMPLETE of a batch is in the trail, every user of the
\* batch has been processed, and the reported counts are the numbers of the
\* batch's items with each outcome, which add up to the batch's size.
C17_BatchCompleteCountsAreActual ==
  \A k \in 1..Len(process_logs) :
    process_logs[k].logType = "BATCH_COMPLETE" =>
      LET e   == process_logs[k]
          bid == e.batchId
      IN  /\ Len(SelectSeq(items, LAMBDA x : x.batchId = bid)) = e.totalUsers
          /\ e.details.successful = Len(BatchOutcomes(bid, "success"))
          /\ e.details.updated = Len(BatchOutcomes(bid, "updated"))
          /\ e.details.skipped = Len(BatchOutcomes(bid, "skipped"))
          /\ e.details.errors = Len(BatchOutcomes(bid, "error"))
          /\ e.details.successful + e.details.updated + e.details.skipped
               + e.details.errors = e.totalUsers

\* Positions in the audit trail of the item's events of the given types.
EventsAt(it, types) ==
  {k \in 1..Len(process_logs) :
     /\ process_logs[k].logType \in types
     /\ process_logs[k].email = it.email
     /\ process_logs[k].batchId = it.batchId}

TerminalEvents ==
  {"USER_SKIPPED", "USER_SUCCESS", "USER_UPDATED", "USER_ERROR"}

\* C18: no audit write having failed, every processed item has a
\* USER_PROCESSING_START in the trail, followed by exactly one terminal
\* event, and every event of an item processed later in the same batch comes
\* after both.
C18_ItemStartThenOneTerminalEvent ==
  auditFailures = 0 =>
    \A k \in 1..Len(items) :
      LET starts == EventsAt(items[k], {"USER_PROCESSING_START"})
          ends   == EventsAt(items[k], TerminalEvents)
      IN  /\ Cardinality(starts) = 1
          /\ Cardinality(ends) = 1
          /\ \A s \in starts : \A e \in ends : s < e
          /\ \A j \in (k + 1)..Len(items) :
               (items[j].run = items[k].run
                  /\ items[j].batchId = items[k].batchId)
                 => \A e \in ends :
                      \A n \in EventsAt(items[j], TerminalEvents
                                 \cup {"USER_PROCESSING_START"}) : e < n

\* The audit trail of the session that a click has started.
SessionTrail(r) ==
  SelectSeq(process_logs, LAMBDA x : x.sessionId = NewSessionId(r))

\* C19: no audit write having failed, the trail of a session that has run to
\* its end begins with SESSION_START and ends with SESSION_COMPLETE, and for
\* every batch pass it holds BATCH_START and, later, BATCH_COMPLETE, with
\* the events of that pass and no others in between.
C19_TrailFollowsStateSequence ==
  auditFailures = 0 =>
    \A r \in Runs :
      run[r].pc = "done" =>
        LET trail == SessionTrail(r)
        IN  /\ Len(trail) >= 2
            /\ trail[1].logType = "SESSION_START"
            /\ trail[Len(trail)].logType = "SESSION_COMPLETE"
            /\ \A p \in 1..run[r].passes :
                 \E s, e \in 1..Len(trail) :
                   /\ s < e
                   /\ trail[s].logType = "BATCH_START"
                   /\ trail[e].logType = "BATCH_COMPLETE"
                   /\ \A n \in 1..Len(trail) :
                        (s <= n /\ n <= e)
                          <=> trail[n].batchId = <<"batch", r, p>>

\* What the store holds for the item's identity when it is looked up makes
\* of the item: skipped without a write when the most recent record is a
\* success, evaluated and then updated when it is not a success, evaluated
\* and then inserted when there is no record.
ClassifiedByStore(it) ==
  IF LatestIs(it.rowsAtCheck, "success")
  THEN ~it.evaluated /\ it.write = "none" /\ it.result.status = "skipped"
  ELSE /\ it.evaluated
       /\ it.needsUpdate = (Len(it.rowsAtCheck) > 0)
       /\ ~it.threw =>
            IF Len(it.rowsAtCheck) > 0
            THEN it.write = "update" /\ it.result.status = "updated"
            ELSE it.write = "insert" /\ it.result.status = "success"

C21_SkippedItemWritesNothing ==
  [][\A r \in Runs :
       (/\ run[r].pc = "check"
        /\ run'[r] # run[r]
        /\ run'[r].existingCheck.error = null
        /\ LatestIs(RowsOf(evaluation_results, CurrentUser(r)), "success"))
         => /\ evaluation_results' = evaluation_results
            /\ localStorage' = localStorage
            /\ run'[r].pc \notin {"evaluate", "save", "saveError"}
            /\ Len(items') = Len(items) + 1
            /\ items'[Len(items')].result.status = "skipped"
            /\ items'[Len(items')].email = CurrentUser(r)
            /\ items'[Len(items')].rowsAfter
                 = RowsOf(evaluation_results', CurrentUser(r))
            /\ items'[Len(items')].rowsAfter
                 = items'[Len(items')].rowsAtCheck]_vars

\* A session has skipped an item and run to its end with the identity's rows
\* as they were when the item was looked up.
C21_Witness ==
  \E k \in 1..Len(items) :
    /\ items[k].result.status = "skipped"
    /\ ~items[k].lookupError
    /\ run[items[k].run].pc = "done"
    /\ RowsOf(evaluation_results, items[k].email) = items[k].rowsAtCheck

\* The failure detail of an Evaluator call that failed.
EvaluatorFailureDetail ==
  IF apiKey THEN "Invalid response format from Gemini AI" ELSE KeyMissingMessage

\* The identity's most recent record is an error record with the detail.
ErrorRecordPersisted(rows, detail) ==
  /\ LatestIs(rows, "error")
  /\ rows[Len(rows)].error_message = detail
  /\ rows[Len(rows)].total_score = 0

C23_AtMostOneRowPerIdentity ==
  \A u \in 1..Len(users) : Len(RowsOf(evaluation_results, users[u])) <= 1

\* The event types the specification lists.
ListedEventTypes ==
  {"SESSION_START", "BATCH_START", "USER_PROCESSING_START", "USER_SKIPPED",
   "USER_SUCCESS", "USER_UPDATED", "USER_ERROR", "BATCH_COMPLETE",
   "SESSION_COMPLETE"}

\* C24 (as stated): every event in the audit trail has one of the nine
\* listed event types.
C24_EventTypesListed ==
  \A k \in 1..Len(process_logs) : process_logs[k].logType \in ListedEventTypes

\* C24 (amended): every event in the audit trail has one of the nine listed
\* types or is a DUPLICATE_CHECK_ERROR or a USER_UPDATE_START.
C24_EventTypesListedOrCheckErrorOrUpdateStart ==
  \A k \in 1..Len(process_logs) :
    process_logs[k].logType
      \in ListedEventTypes \cup {"DUPLICATE_CHECK_ERROR", "USER_UPDATE_START"}

\* The trail holds an event of a further type and an update's event.
C24_Witness ==
  /\ \E k \in 1..Len(process_logs) :
       process_logs[k].logType = "USER_UPDATE_START"
  /\ \E k \in 1..Len(process_logs) :
       process_logs[k].logType = "USER_UPDATED"

\* Where the batch that an invocation is working on begins in the user list.
WindowStart(r) == run[r].closure.currentBatchIndex * BATCH_SIZE

\* C25: each batch of a session is assembled from the position that the
\* batches before it have left the cursor at: the spans of all earlier
\* batches taken together, whatever number of their users was skipped, so
\* that no range is scanned twice.
C25_CursorAdvancesBySpanScanned ==
  \A r \in Runs :
    run[r].passes >= 1 => WindowStart(r) = (run[r].passes - 1) * BATCH_SIZE

\* C26: an assembly issues at most P fetchRange calls, never another one
\* once the included items have reached T, and ends, as soon as either
\* holds, with a full batch or at the probe bound (also over an exhausted
\* Work Source), which are its only outcomes.
C26_AssemblyStopsAtTargetOrProbeBound ==
  /\ assembly.probes <= ProbeBound
  /\ assembly.probes > 0 => assembly.includedBeforeProbe < TargetSize
  /\ assembly.cursor = assembly.start + assembly.probes * ProbeWindow
  /\ (assembly.pc = "idle" /\ assembly.assemblies > 0) =>
       /\ assembly.outcome \in {"target", "probeBound"}
       /\ assembly.outcome = "target"
            <=> Len(assembly.included) >= TargetSize
       /\ assembly.outcome = "probeBound" => assembly.probes = ProbeBound

\* An assembly over an exhausted Work Source has ended at the probe bound
\* with nothing included.
C26_Witness ==
  /\ assembly.pc = "idle"
  /\ assembly.outcome = "probeBound"
  /\ assembly.probes = ProbeBound
  /\ assembly.included = <<>>
  /\ assembly.start >= Len(assembly.source)
  /\ assembly.assemblies = 2

C28_CacheOnlyGrowsByAppend ==
  [][(nRuns = 1 /\ localStorage' # localStorage) =>
       /\ Len(localStorage') = Len(localStorage) + 1
       /\ SubSeq(localStorage', 1, Len(localStorage)) = localStorage]_vars

\* C29: a user who is in the stored completed-users list when a session
\* starts is not evaluated in that session.
C29_StoredCompletedUsersNotEvaluatedAgain ==
  \A r \in 1..nRuns :
    run[r].evaluated =>
      \A i \in 1..Len(run[r].closure.completedUsers) :
        run[r].closure.completedUsers[i].email # CurrentUser(r)

\* C30: once every session that was started has completed, the component is
\* back in the state in which the Start button is rendered and a click on it
\* is accepted (neither processing nor complete), as it was initially.
C30_IdleAgainAfterSessionComplete ==
  (nRuns > 0 /\ \A r \in 1..nRuns : run[r].pc = "done") =>
    (~isProcessing /\ ~isComplete)

\* The p-th consecutive slice of BATCH_SIZE users of the list (the last one
\* may be shorter, the ones after it are empty).
Slice(p) ==
  SubSeq(users, (p - 1) * BATCH_SIZE + 1, Min(p * BATCH_SIZE, Len(users)))

\* C31: the p-th batch that a session works on is the p-th consecutive slice
\* of the user list (so the batches are disjoint, of BATCH_SIZE users but
\* for the last, and cover the list), and hasMoreBatches is true exactly
\* when the slice after it is not empty.
C31_BatchesAreConsecutiveSlices ==
  \A r \in Runs :
    run[r].passes >= 1 =>
      /\ getCurrentBatch(run[r].closure) = Slice(run[r].passes)
      /\ hasMoreBatches(run[r].closure) <=> Slice(run[r].passes + 1) # <<>>

\* The click r has invoked startBatchProcessing and its session is not over.
SessionInProgress(r) == r <= nRuns /\ run[r].pc \notin {"idle", "done", "rejected"}

\* C32: while a session is in progress startBatchProcessing is not invoked
\* again, so at most one session is in progress.
C32_AtMostOneSessionInProgress ==
  Cardinality({r \in Runs : SessionInProgress(r)}) <= 1

\* C33: no two items of one session for which the Evaluator was invoked are
\* about the same user.
C33_EvaluatedAtMostOncePerSession ==
  \A r \in Runs :
    \A m, n \in 1..Len(SessionItems(r)) :
      (m < n /\ SessionItems(r)[m].evaluated /\ SessionItems(r)[n].evaluated)
        => SessionItems(r)[m].email # SessionItems(r)[n].email

\* C34: processedUsersCount is the number of entries of evaluationResults,
\* no two entries of evaluationResults are about the same user, and
\* processedUsersCount is at most users.length.
C34_ProgressWithinBounds ==
  /\ processedUsersCount = Len(evaluationResults)
  /\ \A m, n \in 1..Len(evaluationResults) :
       m < n => evaluationResults[m].email # evaluationResults[n].email
  /\ processedUsersCount <= Len(users)

\* C35: after a mount whose session completed with no failed evaluation and
\* no failed persistence write, a session of a new mount over the same list
\* makes no Evaluator call and no persistence write, reports every user as
\* skipped and leaves the store as it was.
C35_RerunIsIdempotent ==
  (mount.n > 1 /\ mount.clean) =>
    /\ \A k \in 1..Len(items) :
         /\ ~items[k].evaluated
         /\ items[k].write = "none"
         /\ items[k].result.status = "skipped"
    /\ \A r \in Runs : ~EvaluatorInvoked(r)
    /\ evaluation_results = mount.store

\* C35 (amended): the same, as long as every lookup of the second session
\* has succeeded.
C35_RerunIsIdempotentWhenLookupsSucceed ==
  (mount.n > 1 /\ mount.clean
     /\ \A k \in 1..Len(items) : ~items[k].lookupError) =>
    /\ \A k \in 1..Len(items) :
         /\ ~items[k].evaluated
         /\ items[k].write = "none"
         /\ items[k].result.status = "skipped"
    /\ evaluation_results = mount.store

C35_Witness ==
  /\ mount.n > 1 /\ mount.clean
  /\ \E i \in 1..Len(mount.store) :
       /\ mount.store[i].evaluation_status = "success"
       /\ mount.store[i].stage_scores # PriorScores
  /\ Len(items) = Len(users)
  /\ \A k \in 1..Len(items) :
       ~items[k].lookupError /\ items[k].result.status = "skipped"
  /\ nRuns > 0 /\ \A r \in 1..nRuns : run[r].pc = "done"

\* The rows hold a success record with the given total score.
HasSuccessWithScore(rows, score) ==
  \E i \in 1..Len(rows) :
    rows[i].evaluation_status = "success" /\ rows[i].total_score = score

C37_PagerShowsCurrentPage ==
  (drive.isConnected /\ ~drive.fetch.active /\ drive.driveFiles # <<>>) =>
    /\ Len(drive.pageTokens) = drive.currentPage - 1
    /\ \A k \in 1..Len(drive.pageTokens) : PageOf(drive.pageTokens[k]) = k + 1
    /\ drive.shownPage = drive.currentPage

\* s is an initial part of t.
IsPrefix(s, t) == Len(s) <= Len(t) /\ SubSeq(t, 1, Len(s)) = s

\* C38: once cancelEvaluation has been called during a running evaluation,
\* the run stays at the file that was in flight until it ends, the results
\* shown at the cancellation stay shown, and when the run has ended and
\* nothing else is pending isProcessing is false; a run that has not been
\* cancelled runs with the cancel flag cleared.
C38_CancelStopsAfterFileInFlight ==
  /\ (drive.cancelled /\ drive.eval.pc # "idle") =>
       drive.eval.i = drive.cancelIndex
  /\ drive.cancelled =>
       IsPrefix(drive.resultsAtCancel, drive.evaluationResults)
  /\ (drive.eval.pc = "idle" /\ ~drive.fetch.active /\ ~drive.connecting) =>
       ~drive.isProcessing
  /\ (drive.eval.pc # "idle" /\ ~drive.cancelled) =>
       ~drive.cancelEvaluationRef
C38_Witness ==
  /\ drive.cancelled
  /\ drive.runs > 1
  /\ drive.eval.pc = "idle"
  /\ ~drive.isProcessing
  /\ drive.resultsAtCancel # <<>>
  /\ Len(drive.evaluationResults) = Len(drive.resultsAtCancel) + 1
  /\ Len(drive.selectedFiles) > Len(drive.evaluationResults)
====
